---- MODULE Spec2Model ----
(***************************************************************************)
(* Model of kv-sqlite (src/index.ts): the kv table, its three triggers,    *)
(* the prepared statements and the KV facade built on them.                *)
(*                                                                         *)
(* Time is counted in ticks; TicksPerSec ticks make one second.  Date.now()*)
(* and Date values are ticks, unixepoch() and the *_at columns are whole   *)
(* seconds.  A nullable value is a sequence: <<>> is NULL / null, <<x>> is *)
(* the value x.  Every facade call runs one SQL statement, which the       *)
(* engine executes atomically, so a call is one step of the model.         *)
(***************************************************************************)
EXTENDS Integers, Sequences, FiniteSets, TLC

\* ---- bounds of the model ----
MaxTick == 2
MaxCounter == 1

\* ticks per second: the 1000 of Date.now() / 1000, scaled down
TicksPerSec == 2

Keys == {"k1", "k2"}
Callers == {"c1", "c2"}
\* JSON-serialisable payloads a caller passes to set: null and a string
Strings == {"a"}
Data == {<<>>} \cup {<<s>> : s \in Strings}

VARIABLES
    table,   \* the kv table: a function from the stored keys to their rows
    clock,   \* the system clock, in ticks
    last,    \* the last facade call: caller, operation, arguments, result
    watch,   \* the keys whose history is recorded in origin and handed
    origin,  \* per watched key: the successful set that created the entry,
             \* while no other call has written to the key since (a set
             \* that returned false has written nothing)
    handed,  \* per watched key: getDel calls that returned an entry since
             \* the last successful set of the key
    tally    \* per watched key with a row: increments minus decrements
             \* completed since the row was created

vars == <<table, clock, last, watch, origin, handed, tally>>

\* ---- engine and runtime primitives ----

\* unixepoch(), and Math.floor(ms / 1000)
unixepoch(t) == t \div TicksPerSec

\* new Date(seconds * 1000)
DateOf(s) == s * TicksPerSec

\* JSON.stringify on a string: the text in quotes
JSONstringify(s) == <<"\"", s, "\"">>

\* JSON.parse on the text of a string
JSONparse(txt) == txt[2]

\* expires_at IS NOT NULL AND expires_at <= unixepoch()
Expired(row, now) == row.expires_at # <<>> /\ row.expires_at[1] <= now

\* Live with the comparison off by one: a row is still served in the second
\* it expires
LiveAtExpiry(row, now) == row.expires_at = <<>> \/ row.expires_at[1] >= now

\* expires_at IS NULL OR expires_at > unixepoch()
Live(row, now) == row.expires_at = <<>> \/ row.expires_at[1] > now

\* the rows of t without the keys in D
Without(t, D) == [k \in DOMAIN t \ D |-> t[k]]

\* t with the row r stored under key
With(t, key, r) == [k \in DOMAIN t \cup {key} |-> IF k = key THEN r ELSE t[k]]

\* a row created by INSERT (key, json_data, expires_at): column defaults
NewRow(json_data, expires_at, now) ==
    [json_data |-> json_data, counter |-> 0, expires_at |-> expires_at,
     created_at |-> now, updated_at |-> now]

\* ---- triggers ----

\* the cleanup triggers missing: nothing is deleted
CleanupNothing(t, now) == t

\* cleanup_expired_on_insert / cleanup_expired_on_delete: the trigger body
CleanupExpired(t, now) == Without(t, {k \in DOMAIN t : Expired(t[k], now)})

\* the update trigger missing: updated_at keeps its value
TouchNothing(t, key, now) == t

\* update_updated_at_on_update: the trigger body, for NEW.key
TouchUpdatedAt(t, key, now) ==
    IF key \in DOMAIN t
    THEN [t EXCEPT ![key] = [@ EXCEPT !.updated_at = now]]
    ELSE t

\* ---- prepared statements: each yields the new table and what it returns ----

\* select without the liveness filter: whatever row is stored for the key
StmtSelectUnfiltered(t, key, now) ==
    IF key \in DOMAIN t THEN <<t[key]>> ELSE <<>>

\* select
StmtSelect(t, key, now) ==
    IF key \in DOMAIN t /\ Live(t[key], now) THEN <<t[key]>> ELSE <<>>

\* deleteSelect that reads the live row and leaves it stored
StmtDeleteSelectKeeps(t, key, now) ==
    IF key \in DOMAIN t /\ Live(t[key], now)
    THEN [tbl |-> t, row |-> <<t[key]>>]
    ELSE [tbl |-> t, row |-> <<>>]

\* deleteSelect: BEFORE DELETE fires for the row being deleted only
StmtDeleteSelect(t, key, now) ==
    IF key \in DOMAIN t /\ Live(t[key], now)
    THEN [tbl |-> Without(CleanupExpired(t, now), {key}), row |-> <<t[key]>>]
    ELSE [tbl |-> t, row |-> <<>>]

\* insertIgnore whose conflict leaves the trigger's deletions in place
StmtInsertIgnoreNoRollback(t, key, json_data, expires_at, now) ==
    LET cleaned == CleanupExpired(t, now) IN
    IF key \in DOMAIN cleaned
    THEN [tbl |-> cleaned, err |-> "SQLITE_CONSTRAINT_PRIMARYKEY"]
    ELSE [tbl |-> With(cleaned, key, NewRow(json_data, expires_at, now)),
          err |-> ""]

\* insertIgnore as an upsert: the row of a later call takes the place of the
\* stored one and no conflict is raised
StmtInsertIgnoreOverwrites(t, key, json_data, expires_at, now) ==
    [tbl |-> With(CleanupExpired(t, now), key,
                  NewRow(json_data, expires_at, now)),
     err |-> ""]

\* insertIgnore: BEFORE INSERT cleanup, then the insert; a primary-key
\* conflict aborts the statement and rolls the cleanup back
StmtInsertIgnore(t, key, json_data, expires_at, now) ==
    LET cleaned == CleanupExpired(t, now) IN
    IF key \in DOMAIN cleaned
    THEN [tbl |-> t, err |-> "SQLITE_CONSTRAINT_PRIMARYKEY"]
    ELSE [tbl |-> With(cleaned, key, NewRow(json_data, expires_at, now)),
          err |-> ""]

\* insertReplace as an upsert of json_data and expires_at that keeps the
\* other columns of an existing row
StmtInsertReplaceKeepsCounter(t, key, json_data, expires_at, now) ==
    LET cleaned == CleanupExpired(t, now) IN
    [tbl |-> IF key \in DOMAIN cleaned
             THEN [cleaned EXCEPT ![key] =
                     [@ EXCEPT !.json_data = json_data,
                               !.expires_at = expires_at]]
             ELSE With(cleaned, key, NewRow(json_data, expires_at, now)),
     err |-> ""]

\* insertReplace: BEFORE INSERT cleanup, then the conflicting row is dropped
\* and the new row inserted
StmtInsertReplace(t, key, json_data, expires_at, now) ==
    [tbl |-> With(Without(CleanupExpired(t, now), {key}), key,
                  NewRow(json_data, expires_at, now)),
     err |-> ""]

\* a delete statement without the BEFORE DELETE cleanup
StmtDeleteNoCleanup(t, D, now) == Without(t, D)

\* a delete that carries the liveness filter and so skips expired rows
StmtDeleteLiveOnly(t, D, now) ==
    LET L == {k \in D \cap DOMAIN t : Live(t[k], now)} IN
    IF L = {} THEN t ELSE Without(CleanupExpired(t, now), L)

\* deleteSingle and the IN (...) query of del: BEFORE DELETE fires once per
\* row the statement deletes, so only when some listed key is stored
StmtDelete(t, D, now) ==
    IF D \cap DOMAIN t = {}
    THEN t
    ELSE Without(CleanupExpired(t, now), D)

\* addToCounter that stores delta in place of counter + delta
StmtAddToCounterOverwrites(t, key, delta, now) ==
    IF key \in DOMAIN t /\ Live(t[key], now)
    THEN LET upd == [t[key] EXCEPT !.counter = delta] IN
         [tbl |-> TouchUpdatedAt([t EXCEPT ![key] = upd], key, now),
          row |-> <<upd>>]
    ELSE [tbl |-> t, row |-> <<>>]

\* addToCounter as an upsert: a key without a row gets one holding delta
StmtAddToCounterCreates(t, key, delta, now) ==
    IF key \in DOMAIN t /\ Live(t[key], now)
    THEN LET upd == [t[key] EXCEPT !.counter = @ + delta] IN
         [tbl |-> TouchUpdatedAt([t EXCEPT ![key] = upd], key, now),
          row |-> <<upd>>]
    ELSE IF key \notin DOMAIN t
    THEN LET new == [NewRow(<<>>, <<>>, now) EXCEPT !.counter = delta] IN
         [tbl |-> With(t, key, new), row |-> <<new>>]
    ELSE [tbl |-> t, row |-> <<>>]

\* addToCounter: RETURNING yields the row as the UPDATE left it, before the
\* AFTER UPDATE trigger stamps updated_at
StmtAddToCounter(t, key, delta, now) ==
    IF key \in DOMAIN t /\ Live(t[key], now)
    THEN LET upd == [t[key] EXCEPT !.counter = @ + delta] IN
         [tbl |-> TouchUpdatedAt([t EXCEPT ![key] = upd], key, now),
          row |-> <<upd>>]
    ELSE [tbl |-> t, row |-> <<>>]

\* ---- the facade ----

\* format that takes a row without payload for no row
formatNullPayload(result) ==
    IF result = <<>> \/ result[1].json_data = <<>>
    THEN <<>>
    ELSE LET r == result[1] IN
         <<[data |-> <<r.json_data[1][2]>>,
            counter |-> r.counter,
            expiresAt |-> IF r.expires_at # <<>> /\ r.expires_at[1] # 0
                          THEN <<r.expires_at[1] * TicksPerSec>> ELSE <<>>,
            createdAt |-> r.created_at * TicksPerSec,
            updatedAt |-> r.updated_at * TicksPerSec]>>

\* format
format(result) ==
    IF result = <<>>
    THEN <<>>
    ELSE LET r == result[1] IN
         <<[data |-> IF r.json_data = <<>> THEN <<>>
                     ELSE <<JSONparse(r.json_data[1])>>,
            counter |-> r.counter,
            expiresAt |-> IF r.expires_at # <<>> /\ r.expires_at[1] # 0
                          THEN <<DateOf(r.expires_at[1])>> ELSE <<>>,
            createdAt |-> DateOf(r.created_at),
            updatedAt |-> DateOf(r.updated_at)]>>

\* set rounding the ttl's start up to the next whole second
SetExpiresAtCeil(opts, t) ==
    IF opts.ttl # <<>>
    THEN <<(t + TicksPerSec - 1) \div TicksPerSec + opts.ttl[1]>>
    ELSE IF opts.expiresAt # <<>> THEN <<opts.expiresAt[1] \div TicksPerSec>>
    ELSE <<>>

\* set: the expires_at it binds
SetExpiresAt(opts, t) ==
    IF opts.ttl # <<>> THEN <<unixepoch(t) + opts.ttl[1]>>
    ELSE IF opts.expiresAt # <<>> THEN <<unixepoch(opts.expiresAt[1])>>
    ELSE <<>>

\* set: the json_data it binds
SetJsonData(data) == IF data = <<>> THEN <<>> ELSE <<JSONstringify(data[1])>>

\* the errors, other than a primary-key conflict, with which the engine can
\* fail the statement of a set call
EngineFaults == {"SQLITE_BUSY", "SQLITE_FULL"}

\* a set that answers false to whatever error its statement raises
SetCatchSwallows(opts, err) == [ret |-> <<FALSE>>, threw |-> ""]

\* set on a statement that raised err: the replace path runs outside the try
\* block, the other path maps a primary-key conflict to false and throws
\* every other error again
SetCatch(opts, err) ==
    IF opts.replace
    THEN [ret |-> <<>>, threw |-> err]
    ELSE IF err = "SQLITE_CONSTRAINT_PRIMARYKEY"
         THEN [ret |-> <<FALSE>>, threw |-> ""]
         ELSE [ret |-> <<>>, threw |-> err]

\* set: the statement it runs, the error the statement raised and the
\* boolean set returns
SetResult(t, key, data, opts, tnow) ==
    LET now == unixepoch(tnow)
        ea == SetExpiresAt(opts, tnow)
        jd == SetJsonData(data)
    IN IF opts.replace
       THEN [tbl |-> StmtInsertReplace(t, key, jd, ea, now).tbl,
             err |-> "", ret |-> TRUE]
       ELSE LET r == StmtInsertIgnore(t, key, jd, ea, now) IN
            IF r.err = "" THEN [tbl |-> r.tbl, err |-> "", ret |-> TRUE]
            ELSE [tbl |-> r.tbl, err |-> r.err,
                  ret |-> SetCatch(opts, r.err).ret[1]]

\* the Date values a caller passes as expiresAt, in ticks: one inside second
\* 0 and one inside second 1, neither on a second boundary
ExpiresAtDates == {1, 2 * TicksPerSec - 1}

\* the ttl values a caller passes, in seconds
Ttls == {1}

\* the options a caller passes to set
SetOpts ==
    { [replace |-> rp, ttl |-> <<>>, expiresAt |-> <<>>] : rp \in BOOLEAN }
    \cup { [replace |-> rp, ttl |-> <<n>>, expiresAt |-> <<>>] :
             rp \in BOOLEAN, n \in Ttls }
    \cup { [replace |-> rp, ttl |-> <<>>, expiresAt |-> <<d>>] :
             rp \in BOOLEAN, d \in ExpiresAtDates }

NoOpts == [replace |-> FALSE, ttl |-> <<>>, expiresAt |-> <<>>]

\* the key lists a caller passes to del: no key, one key, several keys
KeyLists == {<<>>, <<"k1">>, <<"k2">>, <<"k1", "k2">>, <<"k1", "k1">>}

Range(s) == {s[i] : i \in 1..Len(s)}

\* ---- bookkeeping of the history the properties speak about ----

\* what is stored under key when a call starts
StatusOf(key) ==
    IF key \notin DOMAIN table THEN "absent"
    ELSE IF table[key].expires_at = <<>> THEN "live"
    ELSE IF table[key].expires_at[1] * TicksPerSec > clock THEN "live"
    ELSE "expired"

\* the record of a call: who called what with which arguments, what each
\* addressed key held when the call started, what the call returned, the
\* error the engine raised in its statement and the error the call threw
Call(c, op, keys, data, opts, ret) ==
    [caller |-> c, op |-> op, keys |-> keys, data |-> data, opts |-> opts,
     had |-> [i \in 1..Len(keys) |-> StatusOf(keys[i])],
     ret |-> ret, at |-> clock, err |-> "", threw |-> ""]

\* a write addressed the keys in D: their creating set is no longer the
\* last write
Forget(D) == [k \in Keys |-> IF k \in D THEN <<>> ELSE origin[k]]

\* the tally after a call: delta more for the key whose counter the call
\* changed, zero for a key the call created or whose row is gone
Tallied(t, created, key, delta) ==
    [k \in Keys |->
        IF k \notin watch \/ k \notin DOMAIN t \/ k \in created THEN 0
        ELSE IF k = key THEN tally[k] + delta
        ELSE tally[k]]

Init ==
    /\ table = <<>>
    /\ clock = 0
    /\ last = Call("c1", "init", <<>>, <<>>, NoOpts, <<>>)
    /\ watch = {}
    /\ origin = [k \in Keys |-> <<>>]
    /\ handed = [k \in Keys |-> 0]
    /\ tally = [k \in Keys |-> 0]

\* the same, with the history of k1 recorded
InitWatch ==
    /\ table = <<>>
    /\ clock = 0
    /\ last = Call("c1", "init", <<>>, <<>>, NoOpts, <<>>)
    /\ watch = {"k1"}
    /\ origin = [k \in Keys |-> <<>>]
    /\ handed = [k \in Keys |-> 0]
    /\ tally = [k \in Keys |-> 0]

\* the clock advances
Tick ==
    /\ clock < MaxTick
    /\ clock' = clock + 1
    /\ last' = [caller |-> "c1", op |-> "tick", keys |-> <<>>, data |-> <<>>,
                opts |-> NoOpts, had |-> <<>>, ret |-> <<>>, at |-> clock + 1,
                err |-> "", threw |-> ""]
    /\ UNCHANGED <<table, watch, origin, handed, tally>>

\* a get that also removes the rows that have expired
GetCleans(c, key) ==
    /\ table' = CleanupExpired(table, unixepoch(clock))
    /\ last' = Call(c, "get", <<key>>, <<>>, NoOpts,
                    format(StmtSelect(table, key, unixepoch(clock))))
    /\ UNCHANGED <<clock, watch, origin, handed, tally>>

\* get
Get(c, key) ==
    /\ last' = Call(c, "get", <<key>>, <<>>, NoOpts,
                    format(StmtSelect(table, key, unixepoch(clock))))
    /\ UNCHANGED <<table, clock, watch, origin, handed, tally>>

\* getDel
GetDel(c, key) ==
    LET r == StmtDeleteSelect(table, key, unixepoch(clock)) IN
    /\ table' = r.tbl
    /\ last' = Call(c, "getDel", <<key>>, <<>>, NoOpts, format(r.row))
    /\ origin' = Forget({key})
    /\ handed' = IF key \in watch /\ r.row # <<>> /\ handed[key] < 2
                 THEN [handed EXCEPT ![key] = @ + 1]
                 ELSE handed
    /\ tally' = Tallied(r.tbl, {}, key, 0)
    /\ UNCHANGED <<clock, watch>>

\* set
Set(c, key, data, opts) ==
    LET r == SetResult(table, key, data, opts, clock) IN
    /\ table' = r.tbl
    /\ last' = [Call(c, "set", <<key>>, data, opts, <<r.ret>>)
                   EXCEPT !.err = r.err]
    /\ origin' = IF key \in watch /\ r.ret
                 THEN [origin EXCEPT ![key] =
                         <<[by |-> c, data |-> data, opts |-> opts,
                            at |-> clock]>>]
                 ELSE IF r.ret THEN Forget({key}) ELSE origin
    /\ handed' = IF r.ret THEN [handed EXCEPT ![key] = 0] ELSE handed
    /\ tally' = Tallied(r.tbl, IF r.ret THEN {key} ELSE {}, key, 0)
    /\ UNCHANGED <<clock, watch>>

\* set whose statement the engine fails with err: the failed statement
\* changes nothing and set handles the error
SetFault(c, key, data, opts, err) ==
    /\ last' = [Call(c, "set", <<key>>, data, opts, SetCatch(opts, err).ret)
                   EXCEPT !.err = err, !.threw = SetCatch(opts, err).threw]
    /\ UNCHANGED <<table, clock, watch, origin, handed, tally>>

\* del
Del(c, keys) ==
    /\ table' = IF Len(keys) = 0 THEN table
                ELSE IF Len(keys) = 1
                THEN StmtDelete(table, {keys[1]}, unixepoch(clock))
                ELSE StmtDelete(table, Range(keys), unixepoch(clock))
    /\ last' = Call(c, "del", keys, <<>>, NoOpts, <<>>)
    /\ origin' = Forget(Range(keys))
    /\ tally' = Tallied(table', {}, "", 0)
    /\ UNCHANGED <<clock, watch, handed>>

\* #addToCounter; the counter stays within the range the model explores
AddToCounter(c, op, key, delta) ==
    LET r == StmtAddToCounter(table, key, delta, unixepoch(clock)) IN
    /\ r.row # <<>> => r.row[1].counter \in (0 - MaxCounter)..MaxCounter
    /\ table' = r.tbl
    /\ last' = Call(c, op, <<key>>, <<>>, NoOpts, format(r.row))
    /\ origin' = Forget({key})
    /\ tally' = Tallied(r.tbl, {}, key, IF r.row # <<>> THEN delta ELSE 0)
    /\ UNCHANGED <<clock, watch, handed>>

\* increment
Increment(c, key) == AddToCounter(c, "increment", key, 1)

\* decrement
Decrement(c, key) == AddToCounter(c, "decrement", key, -1)

\* one caller, every key
Next ==
    \/ Tick
    \/ \E k \in Keys : Get("c1", k)
    \/ \E k \in Keys : GetDel("c1", k)
    \/ \E k \in Keys, d \in Data, o \in SetOpts : Set("c1", k, d, o)
    \/ \E ks \in KeyLists : Del("c1", ks)
    \/ \E k \in Keys : Increment("c1", k)
    \/ \E k \in Keys : Decrement("c1", k)

\* several callers whose calls interleave: every call on the key k1, whose
\* history is recorded, and on k2 the writes that fire the cleanup triggers
NextWatch ==
    \/ Tick
    \/ \E c \in Callers : Get(c, "k1")
    \/ \E c \in Callers, k \in Keys : GetDel(c, k)
    \/ \E c \in Callers, d \in Data, o \in SetOpts : Set(c, "k1", d, o)
    \/ \E c \in Callers, rp \in BOOLEAN :
          Set(c, "k2", <<>>, [NoOpts EXCEPT !.replace = rp])
    \/ \E c \in Callers, ks \in KeyLists : Del(c, ks)
    \/ \E c \in Callers : Increment(c, "k1")
    \/ \E c \in Callers : Decrement(c, "k1")

\* one caller that sets, reads and deletes every key, and an engine that can
\* fail the statement of any set call
NextFault ==
    \/ Tick
    \/ \E k \in Keys : Get("c1", k)
    \/ \E k \in Keys, d \in Data, o \in SetOpts : Set("c1", k, d, o)
    \/ \E k \in Keys, d \in Data, o \in SetOpts, e \in EngineFaults :
          SetFault("c1", k, d, o, e)
    \/ \E ks \in KeyLists : Del("c1", ks)

Spec == Init /\ [][Next]_vars

SpecFault == Init /\ [][NextFault]_vars

SpecWatch == InitWatch /\ [][NextWatch]_vars

\* ---- what the properties say about a table, stated without the model's
\* ---- operators

\* key has a row in t that has not expired at tick tk
HasLive(t, key, tk) ==
    /\ key \in DOMAIN t
    /\ \/ t[key].expires_at = <<>>
       \/ t[key].expires_at[1] * TicksPerSec > tk

\* key has a row in t that has expired at tick tk
HasExpired(t, key, tk) ==
    /\ key \in DOMAIN t
    /\ t[key].expires_at # <<>>
    /\ t[key].expires_at[1] * TicksPerSec <= tk

ReadOps == {"get", "getDel", "increment", "decrement"}

\* the result a caller is handed for a live row
EntryOf(row) ==
    [data |-> IF row.json_data = <<>> THEN <<>> ELSE <<row.json_data[1][2]>>,
     counter |-> row.counter,
     expiresAt |-> IF row.expires_at = <<>> THEN <<>>
                   ELSE <<row.expires_at[1] * TicksPerSec>>,
     createdAt |-> row.created_at * TicksPerSec,
     updatedAt |-> row.updated_at * TicksPerSec]

\* the JSON text set stores for a payload
TextOf(data) == IF data = <<>> THEN <<>> ELSE <<<<"\"", data[1], "\"">>>>

\* C1: get, getDel, increment and decrement return null for a key that has
\* no row or whose row has a non-null expires_at <= now, also while the
\* expired row is still stored.
C1_AbsentOrExpiredReadsNull ==
    (last.op \in ReadOps /\ last.had[1] # "live") => last.ret = <<>>

\* C1 witness: a get of a key whose expired row is still stored returned null
C1_Witness ==
    /\ last.op = "get"
    /\ HasExpired(table, last.keys[1], clock)
    /\ last.ret = <<>>

\* C2: set without replace on a key with a live entry returns false and
\* leaves the whole table as it was, expired rows of other keys included.
C2_ConflictLeavesTable ==
    [][(/\ last'.op = "set"
        /\ ~last'.opts.replace
        /\ HasLive(table, last'.keys[1], clock))
       => (last'.ret = <<FALSE>> /\ table' = table)]_vars

\* C2 witness: a set of a live key with another payload returned false while
\* an expired row of the other key was stored, and both rows are still there
C2_Witness ==
    /\ last.op = "set"
    /\ last.ret = <<FALSE>>
    /\ HasLive(table, last.keys[1], clock)
    /\ format(<<table[last.keys[1]]>>)[1].data # last.data
    /\ \E k \in Keys \ {last.keys[1]} : HasExpired(table, k, clock)

\* C3: set(k, v) without options on a key with no live entry returns true,
\* and a later get(k), with no other write on k in between, returns data v
\* (null included, on an entry that is there), counter 0, no expiresAt and
\* createdAt = updatedAt.
C3_SetThenGet ==
    /\ (last.op = "set" /\ last.opts = NoOpts /\ last.had[1] # "live")
          => last.ret = <<TRUE>>
    /\ \A k \in watch :
          (/\ last.op = "get"
           /\ last.keys[1] = k
           /\ origin[k] # <<>>
           /\ origin[k][1].opts = NoOpts)
          => /\ last.ret # <<>>
             /\ last.ret[1].data = origin[k][1].data
             /\ last.ret[1].counter = 0
             /\ last.ret[1].expiresAt = <<>>
             /\ last.ret[1].createdAt = last.ret[1].updatedAt

\* C3 witness: set(k1, null) succeeded at an earlier tick and the get of k1
\* returned an entry
C3_Witness ==
    /\ last.op = "get"
    /\ last.keys[1] = "k1"
    /\ origin["k1"] # <<>>
    /\ origin["k1"][1].opts = NoOpts
    /\ origin["k1"][1].data = <<>>
    /\ origin["k1"][1].at < last.at
    /\ last.ret # <<>>

\* C4: set with replace returns true whatever the key held, and leaves for
\* the key a row with the payload of this call, counter 0 and the expiry of
\* this call (to the second), none when the call gives none.
C4_ReplaceResets ==
    (last.op = "set" /\ last.opts.replace)
    => LET k == last.keys[1]
           o == last.opts
       IN /\ last.ret = <<TRUE>>
          /\ k \in DOMAIN table
          /\ table[k].json_data = TextOf(last.data)
          /\ table[k].counter = 0
          /\ o.ttl # <<>> =>
                table[k].expires_at = <<(last.at \div TicksPerSec) + o.ttl[1]>>
          /\ (o.ttl = <<>> /\ o.expiresAt # <<>>) =>
                /\ table[k].expires_at # <<>>
                /\ table[k].expires_at[1] * TicksPerSec <= o.expiresAt[1]
                /\ o.expiresAt[1] < (table[k].expires_at[1] + 1) * TicksPerSec
          /\ (o.ttl = <<>> /\ o.expiresAt = <<>>) => table[k].expires_at = <<>>

\* C4 witness: a set with replace and a ttl returned on a key that was live
C4_Witness ==
    /\ last.op = "set"
    /\ last.opts.replace
    /\ last.opts.ttl # <<>>
    /\ last.had[1] = "live"
    /\ last.ret = <<TRUE>>
    /\ table[last.keys[1]].counter = 0

\* C5 as the specification states it: after set(k, v, {ttl: t}) at tick T, with no other write
\* on k, get(k) returns v at every tick before T + t seconds and null from
\* then on.
C5_AsClaimed ==
    \A k \in watch :
       (/\ last.op = "get"
        /\ last.keys[1] = k
        /\ origin[k] # <<>>
        /\ origin[k][1].opts.ttl # <<>>)
       => IF last.at < origin[k][1].at + origin[k][1].opts.ttl[1] * TicksPerSec
          THEN last.ret # <<>> /\ last.ret[1].data = origin[k][1].data
          ELSE last.ret = <<>>

\* C5: after set(k, v, {ttl: t}) at tick T, with no other write on k,
\* get(k) returns v at every tick before floor(T) + t seconds, T taken down
\* to the whole second, and null from then on.
C5_TtlFromWholeSecond ==
    \A k \in watch :
       (/\ last.op = "get"
        /\ last.keys[1] = k
        /\ origin[k] # <<>>
        /\ origin[k][1].opts.ttl # <<>>)
       => IF last.at < ((origin[k][1].at \div TicksPerSec)
                          + origin[k][1].opts.ttl[1]) * TicksPerSec
          THEN last.ret # <<>> /\ last.ret[1].data = origin[k][1].data
          ELSE last.ret = <<>>

\* C5 witness: the set was made inside a second, and a get less than t
\* seconds later returned null
C5_Witness ==
    /\ last.op = "get"
    /\ last.keys[1] = "k1"
    /\ origin["k1"] # <<>>
    /\ origin["k1"][1].opts.ttl # <<>>
    /\ origin["k1"][1].at % TicksPerSec # 0
    /\ last.at < origin["k1"][1].at + origin["k1"][1].opts.ttl[1] * TicksPerSec
    /\ last.ret = <<>>

\* C6: a getDel of a live key returns the entry as it was and removes the
\* row; no second getDel returns an entry before the key is set again, and
\* until then every getDel and every get of the key returns null.
C6_GetDelHandsOnce ==
    /\ [](\A k \in watch :
            /\ handed[k] <= 1
            /\ (last.op = "getDel" /\ last.keys[1] = k /\ last.had[1] = "live")
                  => (last.ret # <<>> /\ k \notin DOMAIN table)
            /\ (last.op \in {"get", "getDel"} /\ last.keys[1] = k
                   /\ last.had[1] # "live")
                  => last.ret = <<>>
            /\ (handed[k] = 1 /\ last.op = "get" /\ last.keys[1] = k)
                  => last.ret = <<>>)
    /\ [][(last'.op = "getDel" /\ HasLive(table, last'.keys[1], clock))
          => last'.ret = <<EntryOf(table[last'.keys[1]])>>]_vars

\* C6 witness: one caller was handed the entry of k1 and the getDel of
\* another caller returned null
C6_Witness ==
    /\ last.op = "getDel"
    /\ last.keys[1] = "k1"
    /\ last.caller = "c2"
    /\ handed["k1"] = 1
    /\ last.ret = <<>>

\* C7: on a live entry an increment returns the stored counter plus 1 and a
\* decrement the stored counter minus 1, the stored counter is the number of
\* increments minus the number of decrements completed since the entry was
\* created, and a get leaves the table alone.
C7_CounterExact ==
    /\ [](\A k \in watch : k \in DOMAIN table => table[k].counter = tally[k])
    /\ [][/\ (last'.op = "increment" /\ HasLive(table, last'.keys[1], clock))
             => /\ last'.ret # <<>>
                /\ last'.ret[1].counter = table[last'.keys[1]].counter + 1
                /\ table'[last'.keys[1]].counter = last'.ret[1].counter
          /\ (last'.op = "decrement" /\ HasLive(table, last'.keys[1], clock))
             => /\ last'.ret # <<>>
                /\ last'.ret[1].counter = table[last'.keys[1]].counter - 1
                /\ table'[last'.keys[1]].counter = last'.ret[1].counter
          /\ last'.op = "get" => table' = table]_vars

\* C7 witness: after an increment, a decrement by another caller brought the
\* counter of k1 to -1 + 1 = 0 with an even tally
C7_Witness ==
    /\ last.op = "decrement"
    /\ last.caller = "c2"
    /\ last.ret # <<>>
    /\ last.ret[1].counter = 0
    /\ tally["k1"] = 0
    /\ table["k1"].counter = 0

\* C8: set without replace returns true exactly when the key has no live
\* entry, an expired row still stored counting as none; after a true return
\* of a call without expiry, get of the key yields the payload with counter 0.
C8_SetOverExpired ==
    (last.op = "set" /\ ~last.opts.replace)
    => /\ last.ret = <<TRUE>> <=> last.had[1] # "live"
       /\ (last.ret = <<TRUE>> /\ last.opts = NoOpts)
             => LET g == format(StmtSelect(table, last.keys[1],
                                           unixepoch(clock)))
                IN /\ g # <<>>
                   /\ g[1].data = last.data
                   /\ g[1].counter = 0

\* C8 witness: a set without replace returned true on a key whose expired
\* row was still stored
C8_Witness ==
    /\ last.op = "set"
    /\ ~last.opts.replace
    /\ last.had[1] = "expired"
    /\ last.ret = <<TRUE>>

\* C9: del leaves no row for a listed key, changes nothing when no listed
\* key has a row (the empty list included), adds no row, and leaves every
\* live entry of an unlisted key as it was.
C9_DelFrame ==
    [][last'.op = "del"
       => LET D == {last'.keys[i] : i \in 1..Len(last'.keys)} IN
          /\ D \cap DOMAIN table' = {}
          /\ DOMAIN table' \subseteq DOMAIN table
          /\ D \cap DOMAIN table = {} => table' = table
          /\ \A k \in Keys \ D :
                HasLive(table, k, clock)
                   => (k \in DOMAIN table' /\ table'[k] = table[k])]_vars

\* C9 witness: a del of several keys removed an expired row and a live entry
\* of an unlisted key is still stored
C9_Witness ==
    /\ last.op = "del"
    /\ Len(last.keys) > 1
    /\ last.had[1] = "expired"
    /\ \E k \in Keys : k # last.keys[1] /\ k # last.keys[2]
                          /\ HasLive(table, k, clock)

\* C10: increment and decrement change only counter and updated_at of the
\* live entry they address; on a key that is absent or expired they return
\* null and leave the table as it was, without a row for an absent key.
C10_CounterFrame ==
    [][last'.op \in {"increment", "decrement"}
       => LET k == last'.keys[1] IN
          IF HasLive(table, k, clock)
          THEN /\ DOMAIN table' = DOMAIN table
               /\ \A j \in DOMAIN table \ {k} : table'[j] = table[j]
               /\ table'[k].json_data = table[k].json_data
               /\ table'[k].expires_at = table[k].expires_at
               /\ table'[k].created_at = table[k].created_at
          ELSE /\ last'.ret = <<>>
               /\ table' = table]_vars

\* C10 witness: an increment of a live key returned while an expired row of
\* the other key stayed stored and time had passed since the key was created
C10_Witness ==
    /\ last.op = "increment"
    /\ last.ret # <<>>
    /\ last.ret[1].createdAt < table[last.keys[1]].updated_at * TicksPerSec
    /\ \E k \in Keys \ {last.keys[1]} : HasExpired(table, k, clock)

\* C11 as the specification states it: every set call, whatever it returns,
\* removes every row that was expired when the call was made (the row the
\* call itself stores for its key is not one of those).
C11_AsStated ==
    [][last'.op = "set"
       => \A k \in DOMAIN table \ {last'.keys[1]} :
             HasExpired(table, k, clock) => k \notin DOMAIN table']_vars

\* C11: a set call that returns true removes every row that was expired when
\* the call was made, on any key; a set call that returns false (the key has
\* a live entry) removes nothing, so expired rows of other keys stay stored.
C11_SuccessfulSetCleans ==
    [][last'.op = "set"
       => IF last'.ret = <<TRUE>>
          THEN \A k \in DOMAIN table :
                  HasExpired(table, k, clock)
                     => \/ k \notin DOMAIN table'
                        \/ /\ k = last'.keys[1]
                           /\ table'[k].created_at = unixepoch(clock)
                           /\ table'[k].json_data = TextOf(last'.data)
          ELSE table' = table]_vars

\* C11 witness: a replacing set of a key whose row had expired returned true
\* and no expired row is left in the table
C11_Witness ==
    /\ last.op = "set"
    /\ last.opts.replace
    /\ last.had[1] = "expired"
    /\ last.ret = <<TRUE>>
    /\ Keys \ {last.keys[1]} # {}
    /\ \A k \in Keys : ~HasExpired(table, k, clock)

\* C12 as the specification states it: right after any del call with at least
\* one key and any getDel call, no expired row is stored for any key.
C12_AsStated ==
    (\/ last.op = "getDel"
     \/ last.op = "del" /\ Len(last.keys) >= 1)
    => \A k \in Keys : ~HasExpired(table, k, clock)

\* C12: a del call that lists a key with a stored row (live or expired) and a
\* getDel call on a live key leave no expired row stored for any key; a del
\* call whose keys have no row and a getDel call on an absent or expired key
\* remove nothing, expired rows included.
C12_DeleteOfARowCleans ==
    /\ [](((\/ last.op = "getDel" /\ last.had[1] = "live"
            \/ /\ last.op = "del"
               /\ \E i \in DOMAIN last.keys : last.had[i] # "absent")
           => \A k \in Keys : ~HasExpired(table, k, clock)))
    /\ [][(\/ /\ last'.op = "getDel"
              /\ ~HasLive(table, last'.keys[1], clock)
           \/ /\ last'.op = "del"
              /\ Range(last'.keys) \cap DOMAIN table = {})
          => table' = table]_vars

\* C12 witness: a getDel of a key whose row has expired returned null and the
\* expired rows of that key and of another key are still stored
C12_Witness ==
    /\ last.op = "getDel"
    /\ last.had[1] = "expired"
    /\ last.ret = <<>>
    /\ HasExpired(table, last.keys[1], clock)
    /\ \E k \in Keys \ {last.keys[1]} : HasExpired(table, k, clock)

\* C13: increment / decrement on a live key returns the entry as it stands
\* after the update: the returned counter and updatedAt are those of the row
\* as stored right after the call, which a get at the same instant reads.
C13_ReturnsUpdatedEntry ==
    (last.op \in {"increment", "decrement"} /\ last.ret # <<>>)
    => LET k == last.keys[1] IN
       /\ HasLive(table, k, clock)
       /\ last.ret[1].counter = EntryOf(table[k]).counter
       /\ last.ret[1].updatedAt = EntryOf(table[k]).updatedAt
       /\ last.ret[1].updatedAt = (clock \div TicksPerSec) * TicksPerSec

\* C14: when the engine fails the statement of a set call with an error other
\* than a primary-key conflict, set throws that error, returns neither true
\* nor false and the table stays as it was; set returns false only for a
\* primary-key conflict on the path without replace.
C14_OtherErrorsAreThrown ==
    /\ []((last.op = "set" /\ last.err \in EngineFaults)
            => (last.threw = last.err /\ last.ret = <<>>))
    /\ []((last.op = "set" /\ last.ret = <<FALSE>>)
            => /\ last.err = "SQLITE_CONSTRAINT_PRIMARYKEY"
               /\ ~last.opts.replace
               /\ last.threw = "")
    /\ [][(last'.op = "set" /\ last'.err \in EngineFaults)
          => table' = table]_vars

\* C14 witness: a set without replace on a key with a live entry, whose
\* statement failed on a busy database, threw the busy error
C14_Witness ==
    /\ last.op = "set"
    /\ ~last.opts.replace
    /\ last.had[1] = "live"
    /\ last.err = "SQLITE_BUSY"
    /\ last.threw = "SQLITE_BUSY"
    /\ last.ret = <<>>

\* C15: get is read-only for every key and every state: the table after a
\* get is the table before it, row for row and column for column, so no row
\* is added, removed or touched and an expired row stays stored across any
\* number of get calls.
C15_GetReadsOnly ==
    [][last'.op = "get" => (table' = table /\ clock' = clock)]_vars

\* C15 witness: a get returned a live entry whose updatedAt lies before the
\* current second while an expired row, that of another key, is still stored
C15_Witness ==
    /\ last.op = "get"
    /\ last.ret # <<>>
    /\ last.ret[1].updatedAt + TicksPerSec <= clock
    /\ table[last.keys[1]].updated_at * TicksPerSec = last.ret[1].updatedAt
    /\ \E k \in Keys \ {last.keys[1]} : HasExpired(table, k, clock)

\* C16: every stored row has updated_at >= created_at and a counter that is
\* a number; right after a set that returned true the row of its key has
\* created_at = updated_at; every increment or decrement of a live key leaves
\* the row's updated_at at the current second and its created_at as it was.
C16_RowTimestamps ==
    /\ [](\A k \in DOMAIN table :
             /\ table[k].updated_at >= table[k].created_at
             /\ table[k].counter \in Int)
    /\ []((last.op = "set" /\ last.ret = <<TRUE>>)
             => /\ last.keys[1] \in DOMAIN table
                /\ table[last.keys[1]].created_at
                      = table[last.keys[1]].updated_at)
    /\ [][(/\ last'.op \in {"increment", "decrement"}
           /\ HasLive(table, last'.keys[1], clock))
          => LET k == last'.keys[1] IN
             /\ k \in DOMAIN table'
             /\ table'[k].updated_at * TicksPerSec <= clock
             /\ clock < (table'[k].updated_at + 1) * TicksPerSec
             /\ table'[k].created_at = table[k].created_at]_vars

\* C16 witness: a decrement of a live key created in an earlier second left
\* the row with updated_at in the current second, after its created_at
C16_Witness ==
    /\ last.op = "decrement"
    /\ last.ret # <<>>
    /\ LET row == table[last.keys[1]] IN
       /\ row.created_at * TicksPerSec = last.ret[1].createdAt
       /\ row.updated_at > row.created_at
       /\ row.updated_at * TicksPerSec <= clock
       /\ clock < (row.updated_at + 1) * TicksPerSec

\* C17: of the set calls that several callers make on one key without replace
\* and without expiry, the one that finds no live entry returns true and is
\* the only one: while the entry it stored stands, every other such call, by
\* whatever caller, returns false and changes nothing, and get returns the
\* value of the call that returned true.
C17_OneSetWins ==
    /\ []((last.op = "set" /\ last.opts = NoOpts)
            => (last.ret = <<TRUE>> <=> last.had[1] # "live"))
    /\ [](\A k \in watch :
            (/\ last.op = "get"
             /\ last.keys[1] = k
             /\ origin[k] # <<>>
             /\ origin[k][1].opts = NoOpts)
            => (last.ret # <<>> /\ last.ret[1].data = origin[k][1].data))
    /\ [][\A k \in watch :
            (/\ origin[k] # <<>>
             /\ origin[k][1].opts = NoOpts
             /\ last'.op = "set"
             /\ last'.keys[1] = k
             /\ ~last'.opts.replace)
            => /\ last'.ret = <<FALSE>>
               /\ table' = table
               /\ origin' = origin]_vars

\* C17 witness: at the instant at which c1's set of k1 returned true, c2's set
\* of k1 with another value returned false and c1's value is the one stored
C17_Witness ==
    /\ last.op = "set"
    /\ last.caller = "c2"
    /\ last.opts = NoOpts
    /\ last.keys = <<"k1">>
    /\ last.ret = <<FALSE>>
    /\ origin["k1"] # <<>>
    /\ origin["k1"][1].by = "c1"
    /\ origin["k1"][1].opts = NoOpts
    /\ origin["k1"][1].at = last.at
    /\ origin["k1"][1].data # last.data
    /\ table["k1"].json_data = TextOf(origin["k1"][1].data)

\* the map of the entries of t that are there at tick tk: every row whose
\* expiry has been reached is gone from it
Sweep(t, tk) == [k \in {j \in DOMAIN t : HasLive(t, j, tk)} |-> t[k]]

\* a call made at tick tk on the map m: what it returns and the map after it
OnMap(m, op, keys, data, opts, tk) ==
    LET now == unixepoch(tk) IN
    CASE op = "get" ->
           [ret |-> format(StmtSelect(m, keys[1], now)), map |-> m]
      [] op = "getDel" ->
           LET r == StmtDeleteSelect(m, keys[1], now) IN
           [ret |-> format(r.row), map |-> r.tbl]
      [] op = "set" ->
           LET r == SetResult(m, keys[1], data, opts, tk) IN
           [ret |-> <<r.ret>>, map |-> r.tbl]
      [] op = "del" ->
           [ret |-> <<>>,
            map |-> IF Len(keys) = 0 THEN m
                    ELSE StmtDelete(m, Range(keys), now)]
      [] op \in {"increment", "decrement"} ->
           LET r == StmtAddToCounter(m, keys[1],
                                     IF op = "increment" THEN 1 ELSE -1, now)
           IN [ret |-> format(r.row), map |-> r.tbl]
      [] OTHER -> [ret |-> <<>>, map |-> m]

\* the outcome r of a call made at tick tk, with its map swept
Swept(r, tk) == [ret |-> r.ret, map |-> Sweep(r.map, tk)]

\* C18: the store and a map from which an entry is gone the instant its
\* expiry is reached stay in step: the map of the store's live rows answers
\* every call as the store does and is, after the call and after every tick,
\* again the map of the store's live rows; rows that have expired and are
\* still stored change no result.
C18_LiveRowsDecide ==
    [][IF last'.op = "tick"
       THEN Sweep(table', clock') = Sweep(Sweep(table, clock), clock')
       ELSE Swept([ret |-> last'.ret, map |-> table'], clock)
               = Swept(OnMap(Sweep(table, clock), last'.op, last'.keys,
                             last'.data, last'.opts, clock), clock)]_vars

\* C18 witness: an increment of a key whose expired row is still stored
\* returned null, as on a map without the key, while the other key is live
C18_Witness ==
    /\ last.op = "increment"
    /\ last.had[1] = "expired"
    /\ last.ret = <<>>
    /\ HasExpired(table, last.keys[1], clock)
    /\ \E k \in Keys \ {last.keys[1]} : HasLive(table, k, clock)

====
